---- MODULE Spec2Model ----
(***************************************************************************)
(* Model of two helpers of the SF-Arrests analysis:                        *)
(*                                                                         *)
(*   block_bootstrap  (memos/SF-Arrests/stats_utilities.py)                *)
(*   crime_type_flags (posts/SF-Arrests/data_setup.py)                     *)
(*                                                                         *)
(* block_bootstrap is modelled statement by statement, with numpy's        *)
(* float arithmetic (round to nearest, ties to even) at a reduced          *)
(* mantissa width, python's slice semantics, and the exceptions numpy and  *)
(* python raise on the arguments the function does not validate.  The      *)
(* random source is a stream that is materialised lazily and can be        *)
(* rewound (np.random.seed) for a second invocation on the same inputs.    *)
(***************************************************************************)
EXTENDS Integers, Sequences, FiniteSets, TLC

(***************************************************************************)
(* Bounds of the model.                                                    *)
(***************************************************************************)
\* longest input series
MaxLen == 3
\* largest replicate count tried (the smallest is -1)
MaxReps == 2
\* most block indices one invocation may draw in total
MaxDraws == 2
\* significand width of the modelled binary floating point (binary64: 53)
MantBits == 3
\* most rows of an arrests table
MaxRows == 2

\* the observations the series are built from.  At MantBits = 3 the sum
\* 6 + 6 + 6 is rounded (to 16), as 0.1 + 0.1 + 0.1 is in binary64, while
\* 6 + 6 and every sum of 1s are exact.
Values == {1, 6}

(***************************************************************************)
(* Floating point.  A finite float x is the tuple <<X>> with X = x * Unit  *)
(* an integer having at most MantBits significant bits; NaN is <<>>.       *)
(* The exponent range is not bounded: nothing overflows to infinity.       *)
(***************************************************************************)
FracBits == MantBits + 1
Unit == 2 ^ FracBits
NaN == <<>>
Fl(X) == <<X>>
Val(x) == x[1]
IsNaN(x) == x = NaN

\* the float of the integer observation v
FromInt(v) == Fl(v * Unit)

RECURSIVE Exponent(_, _, _)
\* least e >= 0 with num / (den * 2^e) < 2^MantBits
Exponent(num, den, e) ==
    IF num < (2 ^ MantBits) * den * (2 ^ e) THEN e ELSE Exponent(num, den, e + 1)

\* num / den (num >= 0, den > 0, in units) rounded to nearest, ties to even
RoundPos(num, den) ==
    LET e == Exponent(num, den, 0)
        d == den * (2 ^ e)
        q == num \div d
        r == num % d
        up == (2 * r > d) \/ (2 * r = d /\ q % 2 = 1)
    IN  (IF up THEN q + 1 ELSE q) * (2 ^ e)

Round(num, den) ==
    IF num >= 0 THEN RoundPos(num, den) ELSE 0 - RoundPos(0 - num, den)

FAdd(x, y) == IF IsNaN(x) \/ IsNaN(y) THEN NaN ELSE Fl(Round(Val(x) + Val(y), 1))
FSub(x, y) == IF IsNaN(x) \/ IsNaN(y) THEN NaN ELSE Fl(Round(Val(x) - Val(y), 1))
\* x / cnt for an element count cnt; 0.0 / 0 is NaN
FDivCount(x, cnt) ==
    IF IsNaN(x) \/ cnt = 0 THEN NaN ELSE Fl(Round(Val(x), cnt))
\* IEEE ==: NaN equals nothing
FEq(x, y) == ~IsNaN(x) /\ ~IsNaN(y) /\ x = y

RECURSIVE FSum(_)
\* np.add.reduce: left to right accumulation (fewer than 8 elements)
FSum(xs) ==
    IF Len(xs) = 0 THEN Fl(0)
    ELSE FAdd(FSum(SubSeq(xs, 1, Len(xs) - 1)), xs[Len(xs)])

\* np.mean: the sum divided by the count; NaN for an empty array
Mean(xs) == FDivCount(FSum(xs), Len(xs))

\* the operands exchanged
mean_diff_swapped(x, y) == FSub(Mean(y), Mean(x))

mean_diff(x, y) == FSub(Mean(x), Mean(y))

(***************************************************************************)
(* python and numpy helpers                                                *)
(***************************************************************************)
Min(a, b) == IF a < b THEN a ELSE b

\* python's n // b, b # 0: the floor of the quotient
FloorDiv(a, b) == IF b > 0 THEN a \div b ELSE (0 - a) \div (0 - b)

\* ts[j : j + size] for j >= 0, size >= 1 (0-based j); clipped at the end
Slice(ts, j, size) == SubSeq(ts, j + 1, Min(j + size, Len(ts)))

\* ts[:m], m >= 0
Truncate(ts, m) == SubSeq(ts, 1, Min(m, Len(ts)))

RECURSIVE Concatenate(_)
\* np.concatenate of a non-empty list of arrays
Concatenate(arrs) ==
    IF Len(arrs) = 0 THEN <<>> ELSE Head(arrs) \o Concatenate(Tail(arrs))

\* [ts[j:j + block_size] for j in blocks], concatenated
Resample(ts, blks, size) ==
    Concatenate([p \in 1..Len(blks) |-> Slice(ts, blks[p], size)])

\* the positions 1..m of a series, to follow where resampled elements come from
Positions(m) == [p \in 1..m |-> p]

\* np.zeros(cnt), cnt >= 0
Zeros(cnt) == [p \in 1..cnt |-> Fl(0)]

(***************************************************************************)
(* State of block_bootstrap(ts1, ts2, block_size, n_bootstraps)            *)
(***************************************************************************)
VARIABLES
    ts1, ts2, block_size, n_bootstraps,  \* the arguments
    n, observed_diff, bootstrap_diffs,   \* locals of lines 15-17
    i, blocks,                           \* loop variable, line 21
    ts1_resampled, ts2_resampled,        \* lines 25-26
    pc, exc,                             \* position; exception raised
    src1, src2,                          \* positions of ts1 / ts2 concatenated at lines 22-23
    writes,                              \* writes[p]: assignments made to bootstrap_diffs[p - 1]
    tape, pos,                           \* random stream materialised so far; read position
    invocation, first,                   \* 1 or 2; outcome of the first invocation
    table, flags, fpc                    \* crime_type_flags: rows, derived columns, position

bvars == <<ts1, ts2, block_size, n_bootstraps, n, observed_diff, bootstrap_diffs,
           i, blocks, ts1_resampled, ts2_resampled, pc, exc, src1, src2, writes,
           tape, pos, invocation, first>>
fvars == <<table, flags, fpc>>
vars == <<bvars, fvars>>

RECURSIVE SeqsUpTo(_, _)
\* the sequences over S of length at most m
SeqsUpTo(S, m) ==
    IF m = 0 THEN {<<>>}
    ELSE LET shorter == SeqsUpTo(S, m - 1)
         IN  shorter \cup {Append(s, v) : s \in {t \in shorter : Len(t) = m - 1}, v \in S}

Series == SeqsUpTo({FromInt(v) : v \in Values}, MaxLen)
BlockSizes == (0 - 1)..(MaxLen + 1)
Replicates == (0 - 1)..MaxReps

\* range(n - block_size + 2): one start too many
StartRangeOneMore(len, size) == 0..(len - size + 1)

\* range(n): every position a start
StartRangeWhole(len, size) == 0..(len - 1)

\* range(n - block_size + 1): the block starts 0 .. n - block_size
StartRange(len, size) == 0..(len - size)

\* the quotient rounded up
BlockCountCeil(len, size) ==
    IF size > 0 THEN (len + size - 1) \div size ELSE FloorDiv(len, size)

\* size=(n // block_size)
BlockCount(len, size) == FloorDiv(len, size)

\* n = len(ts2)
SeriesLengthOfSecond(a, b) == Len(b)

\* n = len(ts1)
SeriesLength(a, b) == Len(a)

\* np.zeros rejecting a zero count as well
AllocErrorNonPositive(cnt) == IF cnt < 1 THEN "ValueError" ELSE "none"

\* the exception np.zeros(cnt) raises, or "none"
AllocError(cnt) == IF cnt < 0 THEN "ValueError" ELSE "none"

\* range(n_bootstraps - 1)
LoopContinuesOneLess(idx, reps) == idx < reps - 1

\* for i in range(n_bootstraps): whether the body runs for i = idx
LoopContinues(idx, reps) == idx < reps

\* indices an invocation on these arguments draws in total
DrawBudget(len, size, reps) ==
    IF size >= 1 /\ size <= len /\ reps >= 1 THEN BlockCount(len, size) * reps ELSE 0

\* the values of the locals before they are assigned
Unbound == [n |-> 0, observed_diff |-> NaN, bootstrap_diffs |-> <<>>, i |-> 0,
            blocks |-> <<>>, resampled |-> <<>>, src |-> <<>>, writes |-> <<>>]

NoFirst == [pc |-> "none", exc |-> "none", observed_diff |-> NaN,
            bootstrap_diffs |-> <<>>]

FlagsIdle == /\ table = <<>>
             /\ flags = <<>>
             /\ fpc = "idle"

Init ==
    /\ ts1 \in Series
    /\ ts2 \in Series
    /\ block_size \in BlockSizes
    /\ n_bootstraps \in Replicates
    /\ DrawBudget(Len(ts1), block_size, n_bootstraps) <= MaxDraws
    /\ n = Unbound.n
    /\ observed_diff = Unbound.observed_diff
    /\ bootstrap_diffs = Unbound.bootstrap_diffs
    /\ i = Unbound.i
    /\ blocks = Unbound.blocks
    /\ ts1_resampled = Unbound.resampled
    /\ ts2_resampled = Unbound.resampled
    /\ src1 = Unbound.src
    /\ src2 = Unbound.src
    /\ writes = Unbound.writes
    /\ pc = "call"
    /\ exc = "none"
    /\ tape = <<>>
    /\ pos = 0
    /\ invocation = 1
    /\ first = NoFirst
    /\ FlagsIdle

\* lines 15-17: n, observed_diff, np.zeros(n_bootstraps)
Enter ==
    /\ pc = "call"
    /\ n' = SeriesLength(ts1, ts2)
    /\ observed_diff' = mean_diff(ts1, ts2)
    /\ IF AllocError(n_bootstraps) # "none"
       THEN /\ exc' = AllocError(n_bootstraps)
            /\ pc' = "raised"
            /\ UNCHANGED <<bootstrap_diffs, writes>>
       ELSE /\ bootstrap_diffs' = Zeros(n_bootstraps)
            /\ writes' = [p \in 1..n_bootstraps |-> 0]
            /\ pc' = "loop"
            /\ exc' = "none"
    /\ UNCHANGED <<ts1, ts2, block_size, n_bootstraps, i, blocks, ts1_resampled,
                   ts2_resampled, src1, src2, tape, pos, invocation, first, fvars>>

\* a generator the seed does not govern
RandomChoiceUnseeded(stream, p, a, cnt) == [1..cnt -> a]

\* np.random.choice(a, size=cnt, replace=True) at stream position p: the arrays it
\* may return.  What the stream already holds is returned as it is; beyond its end
\* every array over a is possible.
RandomChoice(stream, p, a, cnt) ==
    IF p + cnt <= Len(stream)
    THEN {SubSeq(stream, p + 1, p + cnt)}
    ELSE [1..cnt -> a]

\* the exception line 21 raises, or "none"
DrawError(len, size) ==
    IF size = 0 THEN "ZeroDivisionError"
    ELSE IF BlockCount(len, size) < 0 THEN "ValueError"
    ELSE IF StartRange(len, size) = {} /\ BlockCount(len, size) > 0 THEN "ValueError"
    ELSE "none"

\* line 19 entering the body, line 21
Draw ==
    /\ pc = "loop"
    /\ LoopContinues(i, n_bootstraps)
    /\ IF DrawError(n, block_size) # "none"
       THEN /\ exc' = DrawError(n, block_size)
            /\ pc' = "raised"
            /\ UNCHANGED <<blocks, tape, pos>>
       ELSE /\ blocks' \in RandomChoice(tape, pos, StartRange(n, block_size),
                                        BlockCount(n, block_size))
            /\ tape' = SubSeq(tape, 1, pos) \o blocks'
                           \o SubSeq(tape, pos + Len(blocks') + 1, Len(tape))
            /\ pos' = pos + Len(blocks')
            /\ pc' = "resample"
            /\ exc' = "none"
    /\ UNCHANGED <<ts1, ts2, block_size, n_bootstraps, n, observed_diff,
                   bootstrap_diffs, i, ts1_resampled, ts2_resampled, src1, src2,
                   writes, invocation, first, fvars>>

\* bootstrap_diffs[i] = v (i counts from 0)
Store(diffs, idx, v) == [diffs EXCEPT ![idx + 1] = v]

\* np.concatenate returning an empty array for an empty list
ConcatErrorNever(blks) == "none"

\* the exception np.concatenate([... for j in blks]) raises, or "none": it needs
\* at least one array
ConcatError(blks) == IF Len(blks) = 0 THEN "ValueError" ELSE "none"

\* lines 22-27
ResampleStep ==
    /\ pc = "resample"
    /\ IF ConcatError(blocks) # "none"
       THEN /\ exc' = ConcatError(blocks)
            /\ pc' = "raised"
            /\ UNCHANGED <<ts1_resampled, ts2_resampled, src1, src2,
                           bootstrap_diffs, writes, i>>
       ELSE /\ src1' = Resample(Positions(Len(ts1)), blocks, block_size)
            /\ src2' = Resample(Positions(Len(ts2)), blocks, block_size)
            /\ ts1_resampled' = Truncate(Resample(ts1, blocks, block_size), n)
            /\ ts2_resampled' = Truncate(Resample(ts2, blocks, block_size), n)
            /\ bootstrap_diffs' =
                   Store(bootstrap_diffs, i, mean_diff(ts1_resampled', ts2_resampled'))
            /\ writes' = [writes EXCEPT ![i + 1] = @ + 1]
            /\ i' = i + 1
            /\ pc' = "loop"
            /\ exc' = "none"
    /\ UNCHANGED <<ts1, ts2, block_size, n_bootstraps, n, observed_diff, blocks,
                   tape, pos, invocation, first, fvars>>

\* line 19 leaving the loop, line 32
Return ==
    /\ pc = "loop"
    /\ ~LoopContinues(i, n_bootstraps)
    /\ pc' = "done"
    /\ UNCHANGED <<ts1, ts2, block_size, n_bootstraps, n, observed_diff,
                   bootstrap_diffs, i, blocks, ts1_resampled, ts2_resampled, exc,
                   src1, src2, writes, tape, pos, invocation, first, fvars>>

\* the caller rewinds the random source and invokes the function again on the
\* same arguments
Reinvoke ==
    /\ pc \in {"done", "raised"}
    /\ invocation = 1
    /\ first' = [pc |-> pc, exc |-> exc, observed_diff |-> observed_diff,
                 bootstrap_diffs |-> bootstrap_diffs]
    /\ invocation' = 2
    /\ pos' = 0
    /\ pc' = "call"
    /\ exc' = "none"
    /\ n' = Unbound.n
    /\ observed_diff' = Unbound.observed_diff
    /\ bootstrap_diffs' = Unbound.bootstrap_diffs
    /\ i' = Unbound.i
    /\ blocks' = Unbound.blocks
    /\ ts1_resampled' = Unbound.resampled
    /\ ts2_resampled' = Unbound.resampled
    /\ src1' = Unbound.src
    /\ src2' = Unbound.src
    /\ writes' = Unbound.writes
    /\ UNCHANGED <<ts1, ts2, block_size, n_bootstraps, tape, fvars>>

Next ==
    \/ Enter
    \/ Draw
    \/ ResampleStep
    \/ Return
    \/ Reinvoke

Spec == Init /\ [][Next]_vars

(***************************************************************************)
(* crime_type_flags(arrests_df).  A row carries the two columns the flags  *)
(* read and whether its lower-cased incident_description contains 'sale'.  *)
(***************************************************************************)
Categories == {"Homicide", "Rape", "Robbery", "Assault", "Larceny Theft", "Drug Offense"}
Subcategories == {"Aggravated Assault", "Other"}

Rows == [incident_category : Categories, incident_subcategory : Subcategories,
         sale : BOOLEAN]

Tables == SeqsUpTo(Rows, MaxRows)

property_crimes == {"Burglary", "Larceny Theft", "Motor Vehicle Theft",
                    "Motor Vehicle Theft?", "Arson", "Recovered Vehicle"}
drug_crimes == {"Drug Offense", "Drug Violation"}
violent_crimes == {"Homicide", "Rape", "Robbery"}
violent_crimes_subcat == {"Aggravated Assault"}

\* .isin(members).astype(int)
IsIn(v, members) == IF v \in members THEN 1 ELSE 0

\* lines 75-78: the sum of the two memberships
ViolentFlag(row) ==
    IsIn(row.incident_category, violent_crimes)
        + IsIn(row.incident_subcategory, violent_crimes_subcat)

RECURSIVE ColumnMax(_)
\* Series.max(): <<m>>, or NaN for an empty column
ColumnMax(col) ==
    IF Len(col) = 0 THEN NaN
    ELSE LET rest == ColumnMax(Tail(col))
         IN  IF rest = NaN \/ Head(col) >= Val(rest) THEN Fl(Head(col)) ELSE rest

\* lines 87-91: the names of the flags set, in order; "Other" if none is
BroadCat(violent, property, drugs) ==
    LET parts == (IF violent = 1 THEN <<"Violent">> ELSE <<>>)
                 \o (IF property = 1 THEN <<"Property">> ELSE <<>>)
                 \o (IF drugs = 1 THEN <<"Drugs">> ELSE <<>>)
    IN  IF parts = <<>> THEN <<"Other">> ELSE parts

\* lines 80-102 for one row
DerivedColumns(row, violent) ==
    LET property == IsIn(row.incident_category, property_crimes)
        drugs == IsIn(row.incident_category, drug_crimes)
        drug_sale == drugs = 1 /\ row.sale
    IN  [VIOLENT |-> violent,
         PROPERTY |-> property,
         DRUGS |-> drugs,
         BROAD_CAT |-> BroadCat(violent, property, drugs),
         drug_sale |-> drug_sale,
         drug_non_sale |-> (drugs = 1 /\ ~drug_sale),
         larceny_theft |-> row.incident_category = "Larceny Theft",
         burglary |-> row.incident_category = "Burglary",
         assault |-> row.incident_category = "Assault",
         weapons |-> row.incident_subcategory = "Weapons Offense",
         homicide |-> row.incident_category = "Homicide",
         robbery |-> row.incident_category = "Robbery",
         traffic |-> row.incident_category = "Traffic Violation Arrest"]

BootstrapIdle ==
    /\ ts1 = <<>>
    /\ ts2 = <<>>
    /\ block_size = 1
    /\ n_bootstraps = 0
    /\ n = Unbound.n
    /\ observed_diff = Unbound.observed_diff
    /\ bootstrap_diffs = Unbound.bootstrap_diffs
    /\ i = Unbound.i
    /\ blocks = Unbound.blocks
    /\ ts1_resampled = Unbound.resampled
    /\ ts2_resampled = Unbound.resampled
    /\ src1 = Unbound.src
    /\ src2 = Unbound.src
    /\ writes = Unbound.writes
    /\ pc = "idle"
    /\ exc = "none"
    /\ tape = <<>>
    /\ pos = 0
    /\ invocation = 1
    /\ first = NoFirst

InitFlags ==
    /\ BootstrapIdle
    /\ table \in Tables
    /\ flags = <<>>
    /\ fpc = "call"

\* lines 67-78: the VIOLENT column
FlagViolent ==
    /\ fpc = "call"
    /\ flags' = [r \in 1..Len(table) |-> [VIOLENT |-> ViolentFlag(table[r])]]
    /\ fpc' = "assert"
    /\ UNCHANGED <<table, bvars>>

\* line 79: assert (arrests_df['VIOLENT'].max() == 1)
AssertViolent ==
    /\ fpc = "assert"
    /\ fpc' = IF FEq(ColumnMax([r \in 1..Len(flags) |-> flags[r].VIOLENT]), Fl(1))
              THEN "derive" ELSE "AssertionError"
    /\ UNCHANGED <<table, flags, bvars>>

\* lines 80-103: the other columns, and the return
DeriveFlags ==
    /\ fpc = "derive"
    /\ flags' = [r \in 1..Len(table) |-> DerivedColumns(table[r], flags[r].VIOLENT)]
    /\ fpc' = "returned"
    /\ UNCHANGED <<table, bvars>>

NextFlags ==
    \/ FlagViolent
    \/ AssertViolent
    \/ DeriveFlags

SpecFlags == InitFlags /\ [][NextFlags]_vars

\* C10: for every table the assertion of line 79 holds and the function
\* returns with every VIOLENT flag 0 or 1.
C10_ViolentFlag ==
    /\ fpc # "AssertionError"
    /\ \A r \in 1..Len(flags) : flags[r].VIOLENT \in {0, 1}

(***************************************************************************)
(* Properties of block_bootstrap                                           *)
(***************************************************************************)
\* the arguments the specification calls valid
ValidInputs ==
    /\ Len(ts1) = Len(ts2)
    /\ block_size >= 1
    /\ block_size <= Len(ts1)
    /\ n_bootstraps >= 1

InvalidBlockSize == block_size < 1 \/ block_size > Len(ts1)

Finished == pc \in {"done", "raised"}

\* a replicate has been computed and stored
AfterReplicate == pc \in {"loop", "done"} /\ i >= 1

\* floor(n / block_size) * block_size, for block_size >= 1
ResampledLength == (Len(ts1) \div block_size) * block_size

IsConstant(ts) == \A p, q \in 1..Len(ts) : ts[p] = ts[q]

\* C1: on valid inputs the call returns, the distribution has exactly
\* replicate_count elements, and each position was assigned exactly once, by
\* the iteration of that index.
C1_LengthAndWrites ==
    ValidInputs =>
        /\ pc # "raised"
        /\ pc \in {"loop", "resample", "done"} =>
              /\ Len(bootstrap_diffs) = n_bootstraps
              /\ \A p \in 1..n_bootstraps : writes[p] = (IF p <= i THEN 1 ELSE 0)
        /\ pc = "done" => \A p \in 1..n_bootstraps : writes[p] = 1

C1_Witness ==
    /\ ValidInputs
    /\ pc = "done"
    /\ n_bootstraps = 2
    /\ Len(bootstrap_diffs) = 2

\* C2 as stated: series of unequal length make the call fail (whatever
\* exception stands for InvalidInput); it never returns a result for them.
C2_MismatchRejected ==
    (Len(ts1) # Len(ts2) /\ Finished) => pc = "raised"

\* C2 amended: the lengths are never compared.  With series of unequal length,
\* 1 <= block_size <= len(series_a) and replicate_count >= 0 nothing is raised
\* and the call returns replicate_count elements, with n = len(series_a) and
\* observed_diff the difference of the means of the two full series.
C2_MismatchAccepted ==
    (/\ Len(ts1) # Len(ts2)
     /\ ~InvalidBlockSize
     /\ n_bootstraps >= 0) =>
        /\ pc # "raised"
        /\ exc = "none"
        /\ pc = "done" =>
              /\ n = Len(ts1)
              /\ Len(bootstrap_diffs) = n_bootstraps
              /\ observed_diff = FSub(Mean(ts1), Mean(ts2))
              /\ \A p \in 1..n_bootstraps : writes[p] = 1

C2_Witness ==
    /\ Len(ts1) = 3
    /\ Len(ts2) = 2
    /\ block_size = 2
    /\ n_bootstraps >= 1
    /\ pc = "done"

NothingResampled ==
    /\ pos = 0
    /\ blocks = <<>>
    /\ i = 0
    /\ \A p \in 1..Len(writes) : writes[p] = 0

\* C3 as stated: a block size below 1 or above n makes the call fail (whatever
\* exception stands for InvalidInput), before any index is drawn or replicate
\* computed.
C3_BlockSizeRejected ==
    InvalidBlockSize =>
        /\ pc # "done"
        /\ pc = "raised" => NothingResampled

\* C3 amended: with a block size below 1 or above n and replicate_count >= 1
\* the call fails in its first iteration, with ZeroDivisionError when
\* block_size = 0 and ValueError otherwise, no index drawn and no replicate
\* stored; with replicate_count = 0 it returns an empty distribution, and with
\* replicate_count < 0 it fails with ValueError before the loop.
C3_BlockSizeFails ==
    InvalidBlockSize =>
        /\ NothingResampled
        /\ n_bootstraps >= 1 => pc # "done"
        /\ pc = "raised" =>
              /\ n_bootstraps # 0
              /\ exc = (IF n_bootstraps >= 1 /\ block_size = 0
                        THEN "ZeroDivisionError" ELSE "ValueError")
        /\ pc = "done" => (n_bootstraps = 0 /\ bootstrap_diffs = <<>>)

C3_Witness ==
    /\ Len(ts1) = 3
    /\ Len(ts2) = 3
    /\ block_size = MaxLen + 1
    /\ n_bootstraps = 2
    /\ pc = "raised"
    /\ exc = "ValueError"

\* C4 as stated: a replicate count below 1 makes the call fail (whatever
\* exception stands for InvalidInput); no pair with an empty distribution is
\* ever returned.
C4_ReplicateCountRejected ==
    /\ n_bootstraps < 1 => pc # "done"
    /\ pc = "done" => bootstrap_diffs # <<>>

\* C4 amended: a negative replicate count makes the call fail with ValueError
\* when the distribution is allocated, before the loop; a replicate count of 0
\* raises nothing, whatever the other arguments, and the call returns
\* observed_diff with an empty distribution.
C4_ReplicateCountBehaviour ==
    /\ n_bootstraps < 0 =>
          /\ pc # "done"
          /\ pc = "raised" =>
                (exc = "ValueError" /\ pos = 0 /\ bootstrap_diffs = <<>>)
    /\ n_bootstraps = 0 =>
          /\ pc # "raised"
          /\ pc = "done" =>
                /\ bootstrap_diffs = <<>>
                /\ observed_diff = FSub(Mean(ts1), Mean(ts2))

C4_Witness ==
    /\ n_bootstraps = 0
    /\ Len(ts1) = 3
    /\ Len(ts2) = 3
    /\ block_size = 1
    /\ pc = "done"

\* C5: on valid inputs observed_diff is mean(series_a) - mean(series_b) of the
\* full input series, from the first statement to the return: a function of
\* the two series alone.
C5_ObservedDiff ==
    (ValidInputs /\ pc \in {"loop", "resample", "done"}) =>
        /\ ~IsNaN(observed_diff)
        /\ observed_diff = FSub(Mean(ts1), Mean(ts2))

C5_Witness ==
    /\ ValidInputs
    /\ pc = "done"
    /\ ts1 = <<FromInt(1), FromInt(6), FromInt(6)>>
    /\ block_size = 2
    /\ i = 2

\* C6: with block_size = n every replicate resamples an exact copy of each
\* series and its statistic equals observed_diff.
C6_WholeSeriesBlock ==
    (ValidInputs /\ block_size = Len(ts1)) =>
        /\ pc = "resample" => blocks = <<0>>
        /\ AfterReplicate =>
              /\ ts1_resampled = ts1
              /\ ts2_resampled = ts2
              /\ \A p \in 1..i : FEq(bootstrap_diffs[p], observed_diff)

C6_Witness ==
    /\ ValidInputs
    /\ block_size = 3
    /\ Len(ts1) = 3
    /\ ~IsConstant(ts1)
    /\ n_bootstraps = 2
    /\ pc = "done"

\* C7 as stated: for constant series every element of the distribution equals
\* observed_diff exactly.
C7_ConstantExact ==
    (ValidInputs /\ IsConstant(ts1) /\ IsConstant(ts2) /\ AfterReplicate) =>
        \A p \in 1..i : FEq(bootstrap_diffs[p], observed_diff)

\* C7 amended: for constant series every element of the distribution equals
\* the difference of the means of the first floor(n / block_size) * block_size
\* elements of the two series, whatever the draws; that is observed_diff
\* exactly when block_size divides n.
C7_ConstantPrefix ==
    (ValidInputs /\ IsConstant(ts1) /\ IsConstant(ts2) /\ AfterReplicate) =>
        /\ \A p \in 1..i :
              FEq(bootstrap_diffs[p],
                  FSub(Mean(Truncate(ts1, ResampledLength)),
                       Mean(Truncate(ts2, ResampledLength))))
        /\ ResampledLength = Len(ts1) =>
              \A p \in 1..i : FEq(bootstrap_diffs[p], observed_diff)

C7_Witness ==
    /\ ValidInputs
    /\ IsConstant(ts1)
    /\ IsConstant(ts2)
    /\ Len(ts1) = 3
    /\ block_size = 2
    /\ pc = "done"
    /\ i = 2

\* C8: a second invocation on the same arguments, started from the same state
\* of the random source, ends as the first did and returns the same
\* distribution, element by element (NaN elements, which only series of
\* unequal length produce, at the same positions).
C8_Determinism ==
    (invocation = 2 /\ Finished) =>
        /\ first.pc = pc
        /\ first.exc = exc
        /\ first.observed_diff = observed_diff
        /\ first.bootstrap_diffs = bootstrap_diffs

C8_Witness ==
    /\ invocation = 2
    /\ pc = "done"
    /\ ValidInputs
    /\ ~IsConstant(ts1)
    /\ block_size = 1
    /\ blocks = <<1, 0>>
    /\ first.bootstrap_diffs = bootstrap_diffs
    /\ Len(bootstrap_diffs) = 1

\* C9: on valid inputs every replicate draws floor(n / block_size) starts in
\* 0 .. n - block_size and uses them in draw order for both series: a' and b'
\* have floor(n / block_size) * block_size <= n elements, every run is
\* block_size long, position p of a' and of b' come from the same position of
\* the inputs, and truncating to n elements removes nothing.
C9_Blocks ==
    ValidInputs =>
        /\ (pc = "resample" \/ AfterReplicate) =>
              /\ Len(blocks) = Len(ts1) \div block_size
              /\ \A q \in 1..Len(blocks) :
                    blocks[q] >= 0 /\ blocks[q] <= Len(ts1) - block_size
        /\ AfterReplicate =>
              /\ src1 = src2
              /\ Len(src1) = ResampledLength
              /\ ResampledLength <= Len(ts1)
              /\ Len(ts1_resampled) = Len(src1)
              /\ Len(ts2_resampled) = Len(src2)
              /\ \A q \in 1..Len(blocks) : \A r \in 1..block_size :
                    src1[(q - 1) * block_size + r] = blocks[q] + r
              /\ \A p \in 1..Len(src1) :
                    /\ ts1_resampled[p] = ts1[src1[p]]
                    /\ ts2_resampled[p] = ts2[src2[p]]

C9_Witness ==
    /\ ValidInputs
    /\ Len(ts1) = 2
    /\ block_size = 1
    /\ AfterReplicate
    /\ blocks = <<1, 0>>
    /\ ts1_resampled = <<ts1[2], ts1[1]>>
    /\ ~IsConstant(ts1)
    /\ ~IsConstant(ts2)

====
